---- MODULE Spec2Model ----
(***************************************************************************)
(* Model of protonvpn/services/killswitch_manager.py: KillSwitchManager     *)
(* sequencing nmcli commands over two NetworkManager connection profiles    *)
(* (the kill switch and the routed kill switch).                            *)
(*                                                                          *)
(* NetworkManager itself is the environment.  It is modelled by the two     *)
(* sets the code reads from it (all_conns, active_conns), by the ipv4.routes*)
(* of the routed profile, and by the operator nmcli, which gives the        *)
(* outcomes a command can have: `c a` defines the profile, `c up` binds it, *)
(* `c down` unbinds it, `c delete` removes it; a command that exits with a  *)
(* failure code, or with 10, leaves the service as it was.                  *)
(***************************************************************************)
EXTENDS Integers, Sequences, FiniteSets, TLC

\* Width of an address in bits (IPv4: 32).
AddrBits == 4

\* ------------------------------------------------------------------------
\* ipaddress: networks are [addr, len] with the host bits of addr zero.
\* ------------------------------------------------------------------------
AddrSpace == 0 .. (2^AddrBits - 1)

BlockSize(len) == 2^(AddrBits - len)

Networks == {n \in [addr : AddrSpace, len : 0 .. AddrBits] :
                n.addr % BlockSize(n.len) = 0}

\* The addresses a network covers.
Hosts(n) == {a \in AddrSpace : a - (a % BlockSize(n.len)) = n.addr}

\* a.subnet_of(b)
subnet_of(a, b) ==
    /\ a.len >= b.len
    /\ a.addr - (a.addr % BlockSize(b.len)) = b.addr

\* n.subnets(): the two halves of n, lower half first.
subnets(n) ==
    << [addr |-> n.addr, len |-> n.len + 1],
       [addr |-> n.addr + BlockSize(n.len + 1), len |-> n.len + 1] >>

\* Variant of the exclusion walk that keeps the half holding the hole.
RECURSIVE exclude_walk_keep_hole(_, _, _)
exclude_walk_keep_hole(s1, s2, other) ==
    IF s1 = other THEN <<s1>>
    ELSE IF s2 = other THEN <<s2>>
    ELSE IF subnet_of(other, s1)
         THEN <<s2>> \o exclude_walk_keep_hole(subnets(s1)[1], subnets(s1)[2], other)
    ELSE IF subnet_of(other, s2)
         THEN <<s1>> \o exclude_walk_keep_hole(subnets(s2)[1], subnets(s2)[2], other)
    ELSE <<>>

\* Variant of the exclusion walk that yields the blocks on the way back up.
RECURSIVE exclude_walk_narrowest_first(_, _, _)
exclude_walk_narrowest_first(s1, s2, other) ==
    IF s1 = other THEN <<s2>>
    ELSE IF s2 = other THEN <<s1>>
    ELSE IF subnet_of(other, s1)
         THEN exclude_walk_narrowest_first(subnets(s1)[1], subnets(s1)[2], other)
              \o <<s2>>
    ELSE IF subnet_of(other, s2)
         THEN exclude_walk_narrowest_first(subnets(s2)[1], subnets(s2)[2], other)
              \o <<s1>>
    ELSE <<>>

\* The loop of address_exclude: split the block that holds `other` in two,
\* yield the half that does not hold it, descend into the half that does.
RECURSIVE exclude_walk(_, _, _)
exclude_walk(s1, s2, other) ==
    IF s1 = other THEN <<s2>>
    ELSE IF s2 = other THEN <<s1>>
    ELSE IF subnet_of(other, s1)
         THEN <<s2>> \o exclude_walk(subnets(s1)[1], subnets(s1)[2], other)
    ELSE IF subnet_of(other, s2)
         THEN <<s1>> \o exclude_walk(subnets(s2)[1], subnets(s2)[2], other)
    ELSE <<>>

\* list(self.address_exclude(other)): ValueError when other is not inside
\* self, nothing at all when other is self, else the walk from self down.
address_exclude(self, other) ==
    IF ~subnet_of(other, self)
    THEN [raised |-> "ValueError", subnet_list |-> <<>>]
    ELSE IF other = self
    THEN [raised |-> "none", subnet_list |-> <<>>]
    ELSE [raised |-> "none",
          subnet_list |-> exclude_walk(subnets(self)[1], subnets(self)[2], other)]

\* ------------------------------------------------------------------------
\* Strings holding an address: [kind, addr, len].  kind "v4" is the text
\* "addr/len" (a bare host address has len = AddrBits), "v6" an IPv6 text,
\* "bad" anything that is not an address (None included).
\* ------------------------------------------------------------------------
Text(kind, addr, len) == [kind |-> kind, addr |-> addr, len |-> len]

\* ip_network(text, strict=False): host bits are masked off.
ip_network_lenient(text) ==
    IF text.kind = "v6"
    THEN [raised |-> "none", version |-> 6, net |-> [addr |-> 0, len |-> 0]]
    ELSE IF text.kind = "v4"
    THEN [raised |-> "none", version |-> 4,
          net |-> [addr |-> text.addr - (text.addr % BlockSize(text.len)),
                   len |-> text.len]]
    ELSE [raised |-> "ValueError", version |-> 0, net |-> [addr |-> 0, len |-> 0]]

\* ip_network(text), strict: host bits set or unparsable text is a ValueError.
ip_network(text) ==
    IF text.kind = "v6"
    THEN [raised |-> "none", version |-> 6, net |-> [addr |-> 0, len |-> 0]]
    ELSE IF text.kind = "v4" /\ text.addr % BlockSize(text.len) = 0
    THEN [raised |-> "none", version |-> 4,
          net |-> [addr |-> text.addr, len |-> text.len]]
    ELSE [raised |-> "ValueError", version |-> 0, net |-> [addr |-> 0, len |-> 0]]

\* str(ipv4) for a network.
str(net) == Text("v4", net.addr, net.len)

\* ip_network('0.0.0.0/0')
Universe == [addr |-> 0, len |-> 0]

\* ------------------------------------------------------------------------
\* Names
\* ------------------------------------------------------------------------
ks_conn_name == "pvpn-killswitch"
routed_conn_name == "pvpn-routed-killswitch"
\* A connection of the service that the manager does not track.
other_conn_name == "Wired connection 1"

Tracked == {ks_conn_name, routed_conn_name}
ConnNames == Tracked \cup {other_conn_name}

\* The menu values of enums.py; the code only needs them distinct.
KillswitchStatusEnum == [DISABLED |-> 0, HARD |-> 1, SOFT |-> 2]

\* int(action) of the menu path: the numerals convert, other text does not.
int(action) ==
    CASE action = "0" -> [raised |-> "none", value |-> 0]
      [] action = "1" -> [raised |-> "none", value |-> 1]
      [] action = "2" -> [raised |-> "none", value |-> 2]
      [] action = "3" -> [raised |-> "none", value |-> 3]
      [] OTHER -> [raised |-> "ValueError", value |-> 0]

\* Exit codes of nmcli other than 0 and 10 (1: unknown error, 4: activation
\* failed).
FailCodes == {1, 4}

VARIABLES
    all_conns,                \* ids of client.get_connections()
    active_conns,             \* ids of client.get_active_connections()
    routed_routes,            \* ipv4.routes of the routed profile in the service
    interface_state_tracker,  \* self.interface_state_tracker
    request,                  \* arguments of the current (or last) manage call
    todo,                     \* sub-steps of the manage call still to run
    phase,                    \* "idle", "update" (at a sub-step's refresh),
                              \* "subprocess" (at its run_subprocess call)
    raised,                   \* exception the last manage call ended with
    calls,                    \* commands run by the current manage call
    start,                    \* the service's sets when the manage call began
    calc,                     \* the last address_exclude evaluation
    events                    \* what the current manage call did, in order:
                              \* refreshes, commands, error logs, raises

vars == << all_conns, active_conns, routed_routes, interface_state_tracker,
           request, todo, phase, raised, calls, start, calc, events >>

\* ------------------------------------------------------------------------
\* update_connection_status
\* ------------------------------------------------------------------------
update_connection_status_swapped(all, active) ==
    [c \in Tracked |-> [exists |-> c \in active, is_running |-> c \in all]]

update_connection_status(all, active) ==
    [c \in Tracked |-> [exists |-> c \in all, is_running |-> c \in active]]

\* ------------------------------------------------------------------------
\* The sub-steps: what each builds, and the test that guards its command.
\* ------------------------------------------------------------------------
Step(step, conn, routes) == [step |-> step, conn |-> conn, routes |-> routes]

create_killswitch_connection == Step("create", ks_conn_name, <<>>)

\* The value of calc: an evaluation self.address_exclude(other) and its result.
Calc(self, other, excl) ==
    [self |-> self, other |-> other, done |-> TRUE,
     raised |-> excl.raised, subnet_list |-> excl.subnet_list]

NoCalc == [self |-> Universe, other |-> Universe, done |-> FALSE,
           raised |-> "none", subnet_list |-> <<>>]

\* create_routed_connection up to its create_connection call: the last
\* element of a list, parsed, excluded from the universe, printed.
create_routed_connection(server_ip) ==
    IF server_ip.is_list /\ server_ip.val = <<>>
    THEN [raised |-> "IndexError", steps |-> <<>>, calc |-> NoCalc]
    ELSE LET text == server_ip.val[Len(server_ip.val)]
             parsed == ip_network(text)
         IN  IF parsed.raised # "none"
             THEN [raised |-> parsed.raised, steps |-> <<>>, calc |-> NoCalc]
             ELSE IF parsed.version # 4
             THEN [raised |-> "TypeError", steps |-> <<>>, calc |-> NoCalc]
             ELSE LET excl == address_exclude(Universe, parsed.net)
                      route_data == [i \in 1 .. Len(excl.subnet_list) |->
                                        str(excl.subnet_list[i])]
                      done == Calc(Universe, parsed.net, excl)
                  IN  IF excl.raised # "none"
                      THEN [raised |-> excl.raised, steps |-> <<>>, calc |-> done]
                      ELSE [raised |-> "none",
                            steps |-> << Step("create", routed_conn_name,
                                              route_data) >>,
                            calc |-> done]

create_needed_always(tracker, conn_name) == TRUE

create_needed(tracker, conn_name) == ~tracker[conn_name].exists

activate_needed(tracker, conn_name) ==
    tracker[conn_name].exists /\ ~tracker[conn_name].is_running

deactivate_needed_never(tracker, conn_name) == FALSE

deactivate_needed(tracker, conn_name) == tracker[conn_name].is_running

delete_needed_always(tracker, conn_name) == TRUE

delete_needed_never(tracker, conn_name) == FALSE

delete_needed(tracker, conn_name) == tracker[conn_name].exists

delete_all_connections ==
    << Step("delete", ks_conn_name, <<>>),
       Step("delete", routed_conn_name, <<>>) >>

pre_connection_deactivate_first(server_ip) ==
    LET r == create_routed_connection(server_ip)
    IN  IF r.raised # "none" THEN r
        ELSE [raised |-> "none",
              steps |-> << Step("deactivate", ks_conn_name, <<>>) >> \o r.steps,
              calc |-> r.calc]

pre_connection(server_ip) ==
    LET r == create_routed_connection(server_ip)
    IN  IF r.raised # "none" THEN r
        ELSE [raised |-> "none",
              steps |-> r.steps \o << Step("deactivate", ks_conn_name, <<>>) >>,
              calc |-> r.calc]

post_connection_delete_first ==
    << Step("delete", routed_conn_name, <<>>),
       Step("activate", ks_conn_name, <<>>) >>

post_connection ==
    << Step("activate", ks_conn_name, <<>>),
       Step("delete", routed_conn_name, <<>>) >>

soft_connection == << create_killswitch_connection >> \o post_connection

\* Variant of the dispatch whose last branches fall back to deleting.
dispatch_default_disable(action, is_menu, server_ip) ==
    IF is_menu
    THEN LET n == int(action)
         IN  IF n.raised # "none" THEN [raised |-> n.raised, steps |-> <<>>]
             ELSE IF n.value = KillswitchStatusEnum.HARD
             THEN [raised |-> "none", steps |-> << create_killswitch_connection >>]
             ELSE [raised |-> "none", steps |-> delete_all_connections]
    ELSE CASE action = "pre_connection" -> pre_connection(server_ip)
           [] action = "post_connection" ->
                [raised |-> "none", steps |-> post_connection]
           [] action = "soft_connection" ->
                [raised |-> "none", steps |-> soft_connection]
           [] OTHER -> [raised |-> "none", steps |-> delete_all_connections]

\* The body of manage: the sub-steps the call will run, or the exception it
\* raises before running any.
dispatch(action, is_menu, server_ip) ==
    IF is_menu
    THEN LET n == int(action)
         IN  IF n.raised # "none" THEN [raised |-> n.raised, steps |-> <<>>]
             ELSE IF n.value = KillswitchStatusEnum.HARD
             THEN [raised |-> "none", steps |-> << create_killswitch_connection >>]
             ELSE IF n.value \in {KillswitchStatusEnum.SOFT,
                                  KillswitchStatusEnum.DISABLED}
             THEN [raised |-> "none", steps |-> delete_all_connections]
             ELSE [raised |-> "KillswitchError", steps |-> <<>>]
    ELSE CASE action = "pre_connection" -> pre_connection(server_ip)
           [] action = "post_connection" ->
                [raised |-> "none", steps |-> post_connection]
           [] action = "soft_connection" ->
                [raised |-> "none", steps |-> soft_connection]
           [] action = "disable" ->
                [raised |-> "none", steps |-> delete_all_connections]
           [] OTHER -> [raised |-> "KillswitchError", steps |-> <<>>]

exception_generic(step) == "KillswitchError"

\* The exception class each sub-step hands to run_subprocess.
exception(step) ==
    CASE step = "create" -> "CreateKillswitchError"
      [] step = "activate" -> "ActivateKillswitchError"
      [] step = "deactivate" -> "DectivateKillswitchError"
      [] step = "delete" -> "DeleteKillswitchError"

\* The nmcli command of a sub-step.
subprocess_command(s) ==
    [verb |-> CASE s.step = "create" -> "a"
                [] s.step = "activate" -> "up"
                [] s.step = "deactivate" -> "down"
                [] s.step = "delete" -> "delete",
     conn |-> s.conn, routes |-> s.routes]

\* ------------------------------------------------------------------------
\* NetworkManager: the outcomes of one nmcli command.  Exit 0 applies the
\* command; exit 10 is nmcli's answer when there is nothing to act on (the
\* profile is missing, is not active, or is already as wanted); any other
\* exit code leaves the service as it was.
\* ------------------------------------------------------------------------
Outcome(rc, all, active, routes) ==
    [returncode |-> rc, all_conns |-> all, active_conns |-> active,
     routed_routes |-> routes]

nmcli(cmd, all, active, routes) ==
    LET c == cmd.conn
        failed == {Outcome(rc, all, active, routes) : rc \in FailCodes}
        nothing == {Outcome(10, all, active, routes)}
    IN  CASE cmd.verb = "a" ->
                {Outcome(0, all \cup {c}, active,
                         IF c = routed_conn_name /\ c \notin all
                         THEN cmd.routes ELSE routes)}
                \cup failed
                \cup (IF c \in all THEN nothing ELSE {})
          [] cmd.verb = "up" ->
                (IF c \in all
                 THEN {Outcome(0, all, active \cup {c}, routes)} ELSE {})
                \cup failed
                \cup (IF c \notin all \/ c \in active THEN nothing ELSE {})
          [] cmd.verb = "down" ->
                (IF c \in active
                 THEN {Outcome(0, all, active \ {c}, routes)} ELSE {})
                \cup failed
                \cup (IF c \notin active THEN nothing ELSE {})
          [] cmd.verb = "delete" ->
                (IF c \in all
                 THEN {Outcome(0, all \ {c}, active \ {c},
                               IF c = routed_conn_name THEN <<>> ELSE routes)}
                 ELSE {})
                \cup failed
                \cup (IF c \notin all THEN nothing ELSE {})

\* ------------------------------------------------------------------------
\* Inputs
\* ------------------------------------------------------------------------
Arg(is_list, val) == [is_list |-> is_list, val |-> val]

\* server_ip=None
None == Arg(FALSE, << Text("bad", 0, 0) >>)

HostA == Text("v4", 5, AddrBits)
HostB == Text("v4", 10, AddrBits)

ValidServerIps ==
    { Arg(FALSE, <<HostA>>), Arg(FALSE, <<HostB>>), Arg(TRUE, <<HostB, HostA>>) }

ServerIps ==
    ValidServerIps \cup
    { Arg(FALSE, << Text("v4", 0, 0) >>),     \* "0.0.0.0/0"
      Arg(FALSE, << Text("v4", 5, 2) >>),     \* host bits set
      Arg(FALSE, << Text("v6", 0, 0) >>),
      Arg(TRUE, <<>>),
      None }

MenuActions == {"0", "1", "2", "3", "hard"}
ConnectionActions ==
    {"pre_connection", "post_connection", "soft_connection", "disable",
     "reconnect", "1"}

\* Route lists a routed profile found at start-up can carry.
RouteLists == {create_routed_connection(ip).steps[1].routes : ip \in ValidServerIps}

\* The service as a manage call finds it.
Snapshot(all, active, routes) ==
    [all_conns |-> all, active_conns |-> active, routed_routes |-> routes]

\* ------------------------------------------------------------------------
\* Initial state: __init__ on a service in any state.
\* ------------------------------------------------------------------------
Init ==
    /\ all_conns \in SUBSET ConnNames
    /\ active_conns \in SUBSET all_conns
    /\ routed_routes \in (IF routed_conn_name \in all_conns
                          THEN RouteLists ELSE {<<>>})
    /\ interface_state_tracker = update_connection_status(all_conns, active_conns)
    /\ request = [action |-> "none", is_menu |-> FALSE, server_ip |-> None]
    /\ todo = <<>>
    /\ phase = "idle"
    /\ raised = "none"
    /\ calls = <<>>
    /\ start = Snapshot(all_conns, active_conns, routed_routes)
    /\ calc = NoCalc
    /\ events = <<>>

\* ------------------------------------------------------------------------
\* manage: entry and dispatch.
\* ------------------------------------------------------------------------
manage(action, is_menu, server_ip) ==
    /\ phase = "idle"
    /\ LET d == dispatch(action, is_menu, server_ip)
       IN  /\ request' = [action |-> action, is_menu |-> is_menu,
                          server_ip |-> server_ip]
           /\ raised' = d.raised
           /\ todo' = d.steps
           /\ phase' = IF d.steps = <<>> THEN "idle" ELSE "update"
           /\ calc' = IF ~is_menu /\ action = "pre_connection" /\ d.calc.done
                      THEN d.calc ELSE calc
    /\ calls' = <<>>
    /\ events' = <<>>
    /\ start' = Snapshot(all_conns, active_conns, routed_routes)
    /\ UNCHANGED << all_conns, active_conns, routed_routes,
                    interface_state_tracker >>

\* An entry of events, with the tracker as it is at that point.
Event(kind, verb, conn, tracker) ==
    [kind |-> kind, verb |-> verb, conn |-> conn, tracker |-> tracker]

\* What every sub-step does before its command: refresh the tracker, then go
\* on to the command or, when the test on the refreshed tracker fails, to the
\* next sub-step.
Refreshed_stale == interface_state_tracker

Refreshed == update_connection_status(all_conns, active_conns)

Refresh(needed) ==
    /\ interface_state_tracker' = Refreshed
    /\ events' = Append(events, Event("refresh", "", Head(todo).conn, Refreshed))
    /\ IF needed
       THEN /\ phase' = "subprocess"
            /\ todo' = todo
       ELSE /\ todo' = Tail(todo)
            /\ phase' = IF Tail(todo) = <<>> THEN "idle" ELSE "update"

create_connection ==
    /\ phase = "update"
    /\ Head(todo).step = "create"
    /\ Refresh(create_needed(Refreshed, Head(todo).conn))
    /\ UNCHANGED << all_conns, active_conns, routed_routes, request, raised,
                    calls, start, calc >>

activate_connection ==
    /\ phase = "update"
    /\ Head(todo).step = "activate"
    /\ Refresh(activate_needed(Refreshed, Head(todo).conn))
    /\ UNCHANGED << all_conns, active_conns, routed_routes, request, raised,
                    calls, start, calc >>

deactivate_connection ==
    /\ phase = "update"
    /\ Head(todo).step = "deactivate"
    /\ Refresh(deactivate_needed(Refreshed, Head(todo).conn))
    /\ UNCHANGED << all_conns, active_conns, routed_routes, request, raised,
                    calls, start, calc >>

delete_connection ==
    /\ phase = "update"
    /\ Head(todo).step = "delete"
    /\ Refresh(delete_needed(Refreshed, Head(todo).conn))
    /\ UNCHANGED << all_conns, active_conns, routed_routes, request, raised,
                    calls, start, calc >>

returncode_fails_unless_zero(returncode) == returncode # 0

\* The test of run_subprocess on the exit code.
returncode_fails(returncode) == returncode # 0 /\ returncode # 10

error_log_nothing(tracker) == <<>>

\* What run_subprocess logs before it raises: the whole tracker.
error_log(tracker) == << Event("log", "", "", tracker) >>

\* run_subprocess: run the command; an exit code other than 0 and 10 raises
\* the sub-step's exception, which ends the manage call.
run_subprocess ==
    /\ phase = "subprocess"
    /\ LET cmd == subprocess_command(Head(todo))
       IN  \E o \in nmcli(cmd, all_conns, active_conns, routed_routes) :
              /\ all_conns' = o.all_conns
              /\ active_conns' = o.active_conns
              /\ routed_routes' = o.routed_routes
              /\ calls' = Append(calls, [verb |-> cmd.verb, conn |-> cmd.conn,
                                         returncode |-> o.returncode])
              /\ IF returncode_fails(o.returncode)
                 THEN /\ raised' = exception(Head(todo).step)
                      /\ todo' = <<>>
                      /\ phase' = "idle"
                      /\ events' = Append(events, Event("call", cmd.verb, cmd.conn,
                                                        interface_state_tracker))
                                    \o error_log(interface_state_tracker)
                                    \o << Event("raise", cmd.verb, cmd.conn,
                                                interface_state_tracker) >>
                 ELSE /\ raised' = raised
                      /\ events' = Append(events, Event("call", cmd.verb, cmd.conn,
                                                        interface_state_tracker))
                      /\ todo' = Tail(todo)
                      /\ phase' = IF Tail(todo) = <<>> THEN "idle" ELSE "update"
    /\ UNCHANGED << interface_state_tracker, request, start, calc >>

Call ==
    \/ \E action \in MenuActions : manage(action, TRUE, None)
    \/ \E action \in ConnectionActions \ {"pre_connection"} :
          manage(action, FALSE, None)
    \/ \E server_ip \in ServerIps : manage("pre_connection", FALSE, server_ip)

Next ==
    \/ Call
    \/ create_connection
    \/ activate_connection
    \/ deactivate_connection
    \/ delete_connection
    \/ run_subprocess

Spec == Init /\ [][Next]_vars

\* ------------------------------------------------------------------------
\* The service is shared: no lock is held between a sub-step's refresh and
\* its command, and in that window another process may define, delete, bind
\* or unbind either profile, any number of times.
\* ------------------------------------------------------------------------
external_change ==
    /\ phase = "subprocess"
    /\ \E c \in Tracked :
          \/ /\ c \notin all_conns
             /\ all_conns' = all_conns \cup {c}
             /\ active_conns' = active_conns
             /\ routed_routes' \in (IF c = routed_conn_name
                                    THEN RouteLists ELSE {routed_routes})
          \/ /\ c \in all_conns
             /\ all_conns' = all_conns \ {c}
             /\ active_conns' = active_conns \ {c}
             /\ routed_routes' = IF c = routed_conn_name THEN <<>> ELSE routed_routes
          \/ /\ c \in all_conns \ active_conns
             /\ active_conns' = active_conns \cup {c}
             /\ UNCHANGED << all_conns, routed_routes >>
          \/ /\ c \in active_conns
             /\ active_conns' = active_conns \ {c}
             /\ UNCHANGED << all_conns, routed_routes >>
    /\ UNCHANGED << interface_state_tracker, request, todo, phase, raised,
                    calls, start, calc, events >>

InitShared ==
    /\ Init
    /\ all_conns \subseteq Tracked

CallShared ==
    \/ manage("pre_connection", FALSE, Arg(FALSE, <<HostA>>))
    \/ \E action \in {"post_connection", "soft_connection", "disable"} :
          manage(action, FALSE, None)
    \/ manage("1", TRUE, None)

NextShared ==
    \/ CallShared
    \/ create_connection
    \/ activate_connection
    \/ deactivate_connection
    \/ delete_connection
    \/ run_subprocess
    \/ external_change

SpecShared == InitShared /\ [][NextShared]_vars

\* ------------------------------------------------------------------------
\* The connection life cycle alone: the kill switch is up, no routed profile
\* is left over, and the only calls are pre_connection with a server address
\* and post_connection.
\* ------------------------------------------------------------------------
InitLifecycle ==
    /\ Init
    /\ ks_conn_name \in active_conns
    /\ routed_conn_name \notin all_conns

CallLifecycle ==
    \/ \E server_ip \in ValidServerIps : manage("pre_connection", FALSE, server_ip)
    \/ manage("post_connection", FALSE, None)

NextLifecycle ==
    \/ CallLifecycle
    \/ create_connection
    \/ activate_connection
    \/ deactivate_connection
    \/ delete_connection
    \/ run_subprocess

SpecLifecycle == InitLifecycle /\ [][NextLifecycle]_vars

\* ------------------------------------------------------------------------
\* One round of the life cycle: pre_connection, then post_connection, then
\* post_connection again, each after the one before has returned without
\* error.
\* ------------------------------------------------------------------------
CallRoundTrip ==
    \/ /\ request.action = "none"
       /\ \E server_ip \in ValidServerIps :
             manage("pre_connection", FALSE, server_ip)
    \/ /\ request.action \in {"pre_connection", "post_connection"}
       /\ raised = "none"
       /\ manage("post_connection", FALSE, None)

NextRoundTrip ==
    \/ CallRoundTrip
    \/ create_connection
    \/ activate_connection
    \/ deactivate_connection
    \/ delete_connection
    \/ run_subprocess

SpecRoundTrip == InitLifecycle /\ [][NextRoundTrip]_vars

\* ------------------------------------------------------------------------
\* address_exclude alone, on every pair of networks.
\* ------------------------------------------------------------------------
InitExclude ==
    /\ all_conns = {}
    /\ active_conns = {}
    /\ routed_routes = <<>>
    /\ interface_state_tracker = update_connection_status(all_conns, active_conns)
    /\ request = [action |-> "none", is_menu |-> FALSE, server_ip |-> None]
    /\ todo = <<>>
    /\ phase = "idle"
    /\ raised = "none"
    /\ calls = <<>>
    /\ start = Snapshot(all_conns, active_conns, routed_routes)
    /\ calc \in {[NoCalc EXCEPT !.self = u, !.other = o] : u, o \in Networks}
    /\ events = <<>>

Exclude ==
    /\ ~calc.done
    /\ calc' = Calc(calc.self, calc.other, address_exclude(calc.self, calc.other))
    /\ UNCHANGED << all_conns, active_conns, routed_routes,
                    interface_state_tracker, request, todo, phase, raised,
                    calls, start, events >>

NextExclude == Exclude

SpecExclude == InitExclude /\ [][NextExclude]_vars

\* ------------------------------------------------------------------------
\* Properties
\* ------------------------------------------------------------------------
\* The manage call named by `action` on the connection path is the current
\* or the last call.
During(action) == request.action = action /\ ~request.is_menu

\* The current or the last manage call is the menu call for `value`.
Menu(value) ==
    /\ request.is_menu
    /\ int(request.action).raised = "none"
    /\ int(request.action).value = value

\* ... and it has returned without raising.
Completed(action) == During(action) /\ phase = "idle" /\ raised = "none"

Running(conn) == conn \in active_conns
Exists(conn) == conn \in all_conns

\* The commands of the current call, without their exit codes.
Issued == [i \in 1 .. Len(calls) |-> <<calls[i].verb, calls[i].conn>>]

IsFailure(rc) == rc # 0 /\ rc # 10

\* C1: from "kill switch up, no routed profile", through any sequence of
\* pre_connection (valid address) and post_connection calls whose commands
\* may fail, every state, also between the sub-steps of a call, has the kill
\* switch running or the routed profile defined.
C1_FailClosed == Running(ks_conn_name) \/ Exists(routed_conn_name)

\* A call aborted half way: post_connection failed to bring the kill switch
\* back up, and the routed profile is still there.
C1_Witness ==
    /\ During("post_connection")
    /\ raised = "ActivateKillswitchError"
    /\ ~Running(ks_conn_name)
    /\ Exists(routed_conn_name)

\* C2 as stated: post_connection begun with at least one of the two profiles
\* running never passes through, or ends in, a state where neither runs.
C2_NeverNeitherRunning ==
    (During("post_connection") /\ start.active_conns \cap Tracked # {})
        => active_conns \cap Tracked # {}

\* C2, amended: post_connection never runs `delete` before `up`, and when it
\* begins with the kill switch defined and at least one of the two profiles
\* running, no state during or after it has neither profile running.
C2_ActivateBeforeDelete ==
    During("post_connection") =>
        /\ \A i, j \in 1 .. Len(calls) :
              (calls[i].verb = "delete" /\ calls[j].verb = "up") => j < i
        /\ (ks_conn_name \in start.all_conns
              /\ start.active_conns \cap Tracked # {})
             => active_conns \cap Tracked # {}

\* post_connection has brought the kill switch up and then removed a routed
\* profile that was the only one running.
C2_Witness ==
    /\ Completed("post_connection")
    /\ ks_conn_name \in start.all_conns \ start.active_conns
    /\ routed_conn_name \in start.active_conns
    /\ Issued = << <<"up", ks_conn_name>>, <<"delete", routed_conn_name>> >>
    /\ Running(ks_conn_name)

\* C3 as stated: after pre_connection returns without error the tracker, as
\* the call left it, has the kill switch not running and the routed profile
\* existing.
C3_TrackerAfterPre ==
    Completed("pre_connection") =>
        /\ ~interface_state_tracker[ks_conn_name].is_running
        /\ interface_state_tracker[routed_conn_name].exists

\* C3, amended: after pre_connection returns without error the service has
\* the kill switch not running and the routed profile defined, and that is
\* what a refresh of the tracker reads; the tracker as the call left it has
\* the routed profile existing, and has the kill switch running exactly when
\* the call had to take it down.
C3_ServiceAfterPre ==
    Completed("pre_connection") =>
        /\ ~Running(ks_conn_name)
        /\ Exists(routed_conn_name)
        /\ ~update_connection_status(all_conns, active_conns)[ks_conn_name].is_running
        /\ update_connection_status(all_conns, active_conns)[routed_conn_name].exists
        /\ interface_state_tracker[routed_conn_name].exists
        /\ interface_state_tracker[ks_conn_name].is_running
              <=> <<"down", ks_conn_name>> \in {Issued[i] : i \in 1 .. Len(Issued)}

\* pre_connection took a running kill switch down: the tracker still says
\* running.
C3_Witness ==
    /\ Completed("pre_connection")
    /\ ks_conn_name \in start.active_conns
    /\ ~Running(ks_conn_name)
    /\ interface_state_tracker[ks_conn_name].is_running

\* C4 as stated: after post_connection returns without error, begun with the
\* kill switch defined, the routed profile does not exist and the kill switch
\* runs, in the service and in the tracker as the call left it.
C4_ServiceAndTrackerAfterPost ==
    (Completed("post_connection") /\ ks_conn_name \in start.all_conns) =>
        /\ ~Exists(routed_conn_name)
        /\ Running(ks_conn_name)
        /\ ~interface_state_tracker[routed_conn_name].exists
        /\ interface_state_tracker[ks_conn_name].is_running

\* C4, amended: ... the routed profile does not exist and the kill switch
\* runs in the service; the tracker as the call left it has the kill switch
\* running, and has the routed profile existing exactly when the call had to
\* delete it.
C4_ServiceAfterPost ==
    (Completed("post_connection") /\ ks_conn_name \in start.all_conns) =>
        /\ ~Exists(routed_conn_name)
        /\ Running(ks_conn_name)
        /\ interface_state_tracker[ks_conn_name].is_running
        /\ interface_state_tracker[routed_conn_name].exists
              <=> <<"delete", routed_conn_name>> \in {Issued[i] : i \in 1 .. Len(Issued)}

\* post_connection deleted a routed profile: the tracker still has it.
C4_Witness ==
    /\ Completed("post_connection")
    /\ ks_conn_name \in start.all_conns \ start.active_conns
    /\ routed_conn_name \in start.all_conns
    /\ ~Exists(routed_conn_name)
    /\ Running(ks_conn_name)
    /\ interface_state_tracker[routed_conn_name].exists

\* C5: soft_connection on a service with neither profile runs exactly
\* `add kill switch`, then `up kill switch`, no delete; it ends with the kill
\* switch running and no routed profile.
C5_SoftConnectionCalls ==
    (Completed("soft_connection") /\ start.all_conns \cap Tracked = {}) =>
        /\ Issued = << <<"a", ks_conn_name>>, <<"up", ks_conn_name>> >>
        /\ Running(ks_conn_name)
        /\ ~Exists(routed_conn_name)

C5_Witness ==
    /\ Completed("soft_connection")
    /\ start.all_conns \cap Tracked = {}
    /\ Len(calls) = 2
    /\ Running(ks_conn_name)

\* The exception type of each command.
TypedError(verb) ==
    CASE verb = "a" -> "CreateKillswitchError"
      [] verb = "up" -> "ActivateKillswitchError"
      [] verb = "down" -> "DectivateKillswitchError"
      [] verb = "delete" -> "DeleteKillswitchError"

AdapterErrors == {TypedError(v) : v \in {"a", "up", "down", "delete"}}

\* This step runs a command that exits with a failure code.
FailedCall ==
    /\ phase = "subprocess"
    /\ Len(calls') = Len(calls) + 1
    /\ IsFailure(calls'[Len(calls')].returncode)

\* C6: a command that fails ends the manage call with the exception type of
\* that command, leaves no sub-step to run, and leaves the service as the
\* earlier sub-steps made it; after the failure no command is run until a new
\* manage call begins.
C6_FailureAborts ==
    [][ /\ FailedCall =>
            /\ raised' = TypedError(calls'[Len(calls')].verb)
            /\ phase' = "idle"
            /\ todo' = <<>>
            /\ all_conns' = all_conns
            /\ active_conns' = active_conns
            /\ routed_routes' = routed_routes
        /\ (raised \in AdapterErrors /\ calls' # calls) =>
            (calls' = <<>> /\ raised' \notin AdapterErrors)
      ]_vars

\* post_connection brought the kill switch up, then failed to delete the
\* routed profile: the kill switch stays up, the routed profile stays.
C6_Witness ==
    /\ During("post_connection")
    /\ raised = "DeleteKillswitchError"
    /\ Len(calls) = 2
    /\ ks_conn_name \notin start.active_conns
    /\ Running(ks_conn_name)
    /\ Exists(routed_conn_name)

\* The service is as the current call found it.
ServiceUntouched ==
    Snapshot(all_conns, active_conns, routed_routes) = start

\* C7: no `add` command is at hand for a profile that the refresh before it
\* reported as existing; the menu action HARD on a service that has the kill
\* switch runs no command and changes nothing; pre_connection on a service
\* that has the routed profile runs no `add`.
C7_CreateIdempotent ==
    /\ (phase = "subprocess" /\ Head(todo).step = "create") =>
          /\ ~interface_state_tracker[Head(todo).conn].exists
          /\ ~Exists(Head(todo).conn)
    /\ (Menu(KillswitchStatusEnum.HARD) /\ ks_conn_name \in start.all_conns) =>
          (calls = <<>> /\ raised = "none" /\ ServiceUntouched)
    /\ (During("pre_connection") /\ routed_conn_name \in start.all_conns) =>
          /\ \A i \in 1 .. Len(calls) : calls[i].verb # "a"
          /\ routed_routes = start.routed_routes

C7_Witness ==
    /\ Menu(KillswitchStatusEnum.HARD)
    /\ phase = "idle"
    /\ ks_conn_name \in start.all_conns
    /\ calls = <<>>

\* The current call is DISABLE_ALL (menu SOFT or DISABLED) or DISABLE.
Disabling ==
    \/ Menu(KillswitchStatusEnum.SOFT)
    \/ Menu(KillswitchStatusEnum.DISABLED)
    \/ During("disable")

\* C8: DISABLE_ALL and DISABLE have a delete command at hand only for a
\* profile the refresh before it reported as existing; on a service with
\* neither profile they run no command and raise nothing; when they return
\* without error neither profile exists.
C8_DeleteOnlyExisting ==
    Disabling =>
        /\ phase = "subprocess" =>
              /\ Head(todo).step = "delete"
              /\ interface_state_tracker[Head(todo).conn].exists
        /\ start.all_conns \cap Tracked = {} => (calls = <<>> /\ raised = "none")
        /\ (phase = "idle" /\ raised = "none") => all_conns \cap Tracked = {}

\* DISABLE on a service with the kill switch but no routed profile: one
\* delete, for the kill switch.
C8_Witness ==
    /\ During("disable")
    /\ phase = "idle" /\ raised = "none"
    /\ start.all_conns \cap Tracked = {ks_conn_name}
    /\ Issued = << <<"delete", ks_conn_name>> >>
    /\ all_conns \cap Tracked = {}

\* The addresses the blocks of a list cover.
Covered(list) == UNION {Hosts(list[i]) : i \in 1 .. Len(list)}

\* C9: for every network U and every hole H strictly inside U (a host
\* address, or any narrower network), the blocks of U.address_exclude(H) are
\* pairwise disjoint, none holds an address of H, and together they cover
\* exactly U minus H.
C9_ExclusionExact ==
    (calc.done /\ subnet_of(calc.other, calc.self) /\ calc.other # calc.self) =>
        /\ calc.raised = "none"
        /\ \A i, j \in 1 .. Len(calc.subnet_list) :
              i # j => Hosts(calc.subnet_list[i]) \cap Hosts(calc.subnet_list[j]) = {}
        /\ Covered(calc.subnet_list) \cap Hosts(calc.other) = {}
        /\ Covered(calc.subnet_list) = Hosts(calc.self) \ Hosts(calc.other)

\* A host address excluded from the upper half of the address space.
C9_Witness ==
    /\ calc.done
    /\ calc.self = [addr |-> 2^(AddrBits - 1), len |-> 1]
    /\ calc.other.len = AddrBits
    /\ subnet_of(calc.other, calc.self)
    /\ Len(calc.subnet_list) = AddrBits - 1

\* C10: excluding the universe from itself fails, and so pre_connection with
\* "0.0.0.0/0" raises and runs no `add` for the routed profile.
C10_UniverseHoleFails ==
    /\ (calc.done /\ calc.other = calc.self) => calc.raised # "none"
    /\ (During("pre_connection")
          /\ request.server_ip = Arg(FALSE, << Text("v4", 0, 0) >>)) =>
          /\ phase = "idle" => raised # "none"
          /\ <<"a", routed_conn_name>> \notin {Issued[i] : i \in 1 .. Len(Issued)}

\* This step runs a command.
CommandStep ==
    /\ phase = "subprocess"
    /\ Len(calls') = Len(calls) + 1

\* C11: a command that exits with 0 or with 10 raises nothing and the call
\* goes on to its next sub-step; a command that exits with any other code
\* raises the exception type of that command.
C11_ZeroAndTenSucceed ==
    [][ CommandStep =>
          LET last == calls'[Len(calls')]
          IN  IF last.returncode \in {0, 10}
              THEN /\ raised' = "none"
                   /\ todo' = Tail(todo)
                   /\ phase' = IF Tail(todo) = <<>> THEN "idle" ELSE "update"
              ELSE raised' = TypedError(last.verb)
      ]_vars

\* A command exited with 10 and the call went on to run another command.
C11_Witness ==
    \E i \in 1 .. Len(calls) :
        /\ calls[i].returncode = 10
        /\ i < Len(calls)
        /\ raised = "none"

\* The current or the last manage call carries an action value that manage
\* does not know: a menu number other than the three modes, or a string other
\* than the four connection actions.
Unrecognized ==
    \/ /\ request.is_menu
       /\ int(request.action).raised = "none"
       /\ int(request.action).value \notin
             {KillswitchStatusEnum.HARD, KillswitchStatusEnum.SOFT,
              KillswitchStatusEnum.DISABLED}
    \/ /\ ~request.is_menu
       /\ request.action \notin {"none", "pre_connection", "post_connection",
                                 "soft_connection", "disable"}

C13_RunningImpliesExists ==
    \A c \in Tracked :
        interface_state_tracker[c].is_running => interface_state_tracker[c].exists

\* A refresh has read a service in which the kill switch is bound and the
\* routed profile is defined but not bound.
C13_Witness ==
    /\ events # <<>>
    /\ interface_state_tracker[ks_conn_name].is_running
    /\ interface_state_tracker[routed_conn_name].exists
    /\ ~interface_state_tracker[routed_conn_name].is_running

\* The test that guards the command `verb` on `conn`, on a tracker reading.
Guard(verb, tracker, conn) ==
    CASE verb = "a" -> ~tracker[conn].exists
      [] verb = "up" -> tracker[conn].exists /\ ~tracker[conn].is_running
      [] verb = "down" -> tracker[conn].is_running
      [] verb = "delete" -> tracker[conn].exists

\* C14: every command of a manage call comes right after a refresh of the
\* tracker for the same profile, with nothing run in between; the refresh
\* read the service as it is when the command is run, and the command is
\* run because of what that refresh read.
C14_RefreshBeforeCommand ==
    /\ \A i \in 1 .. Len(events) :
          events[i].kind = "call" =>
              /\ i > 1
              /\ events[i - 1].kind = "refresh"
              /\ events[i - 1].conn = events[i].conn
              /\ events[i - 1].tracker = events[i].tracker
              /\ Guard(events[i].verb, events[i - 1].tracker, events[i].conn)
    /\ phase = "subprocess" =>
          /\ events # <<>>
          /\ events[Len(events)].kind = "refresh"
          /\ events[Len(events)].tracker = interface_state_tracker
          /\ interface_state_tracker
                = update_connection_status(all_conns, active_conns)

\* A call that ran two commands, each after its own refresh.
C14_Witness ==
    /\ Len(calls) = 2
    /\ Len(events) >= 4
    /\ events[Len(events)].kind = "call"
    /\ events[Len(events) - 1].tracker # events[1].tracker

\* C15: after pre_connection(server_ip) returns without error the routed
\* profile of the service carries the route list computed from server_ip.
C15_RoutesOfThisServer ==
    Completed("pre_connection") =>
        /\ Exists(routed_conn_name)
        /\ routed_routes = create_routed_connection(request.server_ip).steps[1].routes

\* The block one prefix step above b.
Parent(b) ==
    [addr |-> b.addr - (b.addr % BlockSize(b.len - 1)), len |-> b.len - 1]

StrictlyInside == calc.done /\ subnet_of(calc.other, calc.self) /\ calc.other # calc.self

\* C16 as stated: the blocks come narrowest first, one per prefix length from
\* that of the hole up to one below that of the universe.
C16_NarrowestFirst ==
    StrictlyInside =>
        /\ Len(calc.subnet_list) = calc.other.len - calc.self.len
        /\ \A i \in 1 .. Len(calc.subnet_list) :
              calc.subnet_list[i].len = calc.other.len - (i - 1)

\* C16, amended: the blocks come widest first, one per prefix length from one
\* below that of the universe down to that of the hole, each the sibling of
\* the block of its length that holds the hole.
C16_WidestFirst ==
    StrictlyInside =>
        /\ Len(calc.subnet_list) = calc.other.len - calc.self.len
        /\ \A i \in 1 .. Len(calc.subnet_list) :
              /\ calc.subnet_list[i].len = calc.self.len + i
              /\ ~subnet_of(calc.other, calc.subnet_list[i])
              /\ subnet_of(calc.other, Parent(calc.subnet_list[i]))

\* A host address excluded from the whole address space: the first block is
\* a half of the space.
C16_Witness ==
    /\ calc.done
    /\ calc.self = Universe
    /\ calc.other.len = AddrBits
    /\ Len(calc.subnet_list) = AddrBits
    /\ calc.subnet_list[1].len = 1

\* C18: when a manage call has ended with the exception of a command, the
\* last thing it did before raising was to log the tracker, whole, as it then
\* was.
C18_LoggedBeforeRaise ==
    /\ raised \in AdapterErrors =>
          /\ Len(events) >= 2
          /\ events[Len(events)].kind = "raise"
    /\ \A i \in 1 .. Len(events) :
          events[i].kind = "raise" =>
              /\ i > 1
              /\ events[i - 1].kind = "log"
              /\ events[i - 1].tracker = interface_state_tracker
              /\ DOMAIN events[i - 1].tracker = Tracked

C18_Witness ==
    /\ raised = "DectivateKillswitchError"
    /\ Len(events) >= 2
    /\ events[Len(events) - 1].kind = "log"
    /\ events[Len(events) - 1].tracker[ks_conn_name].is_running

\* Server addresses that create_routed_connection cannot use: host bits
\* set, an IPv6 address, an empty list, None.
UnusableServerIps ==
    { Arg(FALSE, << Text("v4", 5, 2) >>),
      Arg(FALSE, << Text("v6", 0, 0) >>),
      Arg(TRUE, <<>>),
      None }

\* C19: pre_connection with a server address that is malformed, missing or
\* not of the universe's kind raises before any refresh or command: the
\* service is as the call found it.
C19_BadAddressNoMutation ==
    (During("pre_connection") /\ request.server_ip \in UnusableServerIps) =>
        /\ raised # "none"
        /\ phase = "idle"
        /\ calls = <<>>
        /\ events = <<>>
        /\ ServiceUntouched

\* pre_connection with host bits set, on a service whose kill switch is up.
C19_Witness ==
    /\ During("pre_connection")
    /\ request.server_ip = Arg(FALSE, << Text("v4", 5, 2) >>)
    /\ raised = "ValueError"
    /\ Running(ks_conn_name)
    /\ ~Exists(routed_conn_name)

\* The service already is as the sub-step at hand wants it.
DesiredHolds(step, all, active) ==
    CASE step.step = "create" -> step.conn \in all
      [] step.step = "activate" -> step.conn \in active
      [] step.step = "deactivate" -> step.conn \notin active
      [] step.step = "delete" -> step.conn \notin all

\* The refresh found the command needed, and before the command ran another
\* process made it needless.
Raced == phase = "subprocess" /\ DesiredHolds(Head(todo), all_conns, active_conns)

\* C17: when another process has brought about what a sub-step wants between
\* the sub-step's refresh and its command, the command, unless it fails for
\* a reason of its own (exit code 1 or 4), raises nothing; the call goes on
\* to its next sub-step and the service is still as the sub-step wanted.
C17_RaceTolerated ==
    [][ (Raced /\ CommandStep
            /\ calls'[Len(calls')].returncode \notin FailCodes) =>
          /\ calls'[Len(calls')].returncode \in {0, 10}
          /\ raised' = "none"
          /\ todo' = Tail(todo)
          /\ phase' = IF Tail(todo) = <<>> THEN "idle" ELSE "update"
          /\ DesiredHolds(Head(todo), all_conns', active_conns')
      ]_vars

\* DISABLE found both profiles; another process deleted the kill switch
\* before its delete command, which exited with 10; the routed profile was
\* then deleted.
C17_Witness ==
    /\ Completed("disable")
    /\ Tracked \subseteq start.all_conns
    /\ Len(calls) = 2
    /\ calls[1] = [verb |-> "delete", conn |-> ks_conn_name, returncode |-> 10]
    /\ calls[2].returncode = 0
    /\ all_conns \cap Tracked = {}

\* C20: from "kill switch up, no routed profile", pre_connection and then
\* post_connection, all commands succeeding, leave the kill switch defined
\* and running and no routed profile; a post_connection begun in that state
\* runs no command.
C20_RoundTrip ==
    /\ Completed("post_connection") =>
          /\ Exists(ks_conn_name)
          /\ Running(ks_conn_name)
          /\ ~Exists(routed_conn_name)
          /\ routed_routes = <<>>
    /\ (During("post_connection") /\ ks_conn_name \in start.active_conns
          /\ routed_conn_name \notin start.all_conns) =>
          (calls = <<>> /\ raised = "none")

\* The second post_connection of the round has returned.
C20_Witness ==
    /\ Completed("post_connection")
    /\ ks_conn_name \in start.active_conns
    /\ routed_conn_name \notin start.all_conns
    /\ calls = <<>>
    /\ calc.done

====
